---- MODULE Spec2Model ----
(***************************************************************************)
(* D2Q9 lattice Boltzmann solver (lbm_solver.py): the per-timestep update  *)
(* (outflow patch, macroscopic extraction, Zou/He inflow, equilibrium,     *)
(* BGK collision, obstacle bounce-back, periodic streaming) on a small     *)
(* grid, in exact rational arithmetic.                                     *)
(***************************************************************************)
EXTENDS Integers, Sequences, FiniteSets, TLC

\* ------------------------------------------------------------------------
\* Bounds of the model
\* ------------------------------------------------------------------------
\* grid width and height (the program runs 300 x 50)
N_POINTS_X == 3
N_POINTS_Y == 3
\* number of iterations of the main loop that are explored
MaxSteps == 2
\* a field is stepped again only while its components have denominators
\* up to MaxDen (exact arithmetic in machine integers)
MaxDen == 36

\* ------------------------------------------------------------------------
\* Exact arithmetic: a number is <<n, d>> with d > 0 and gcd(n, d) = 1
\* ------------------------------------------------------------------------
Abs(n) == IF n < 0 THEN -n ELSE n

RECURSIVE GCD(_, _)
GCD(a, b) == IF b = 0 THEN a ELSE GCD(b, a % b)

Norm(n, d) ==
    LET g == GCD(Abs(n), Abs(d))
        s == IF d < 0 THEN -1 ELSE 1
    IN  <<s * (n \div g), s * (d \div g)>>

Rat(n, d) == Norm(n, d)
Int2Rat(n) == <<n, 1>>
Zero == <<0, 1>>
One == <<1, 1>>

RNeg(a) == <<-a[1], a[2]>>

RAdd(a, b) ==
    LET g == GCD(a[2], b[2])
    IN  Norm(a[1] * (b[2] \div g) + b[1] * (a[2] \div g), (a[2] \div g) * b[2])

RSub(a, b) == RAdd(a, RNeg(b))

RMul(a, b) ==
    LET g1 == GCD(Abs(a[1]), b[2])
        g2 == GCD(Abs(b[1]), a[2])
    IN  <<(a[1] \div g1) * (b[1] \div g2), (a[2] \div g2) * (b[2] \div g1)>>

\* 1/a; a division by zero has no value here (the program would produce
\* inf or nan): the fields explored keep every divisor non-zero
RInv(a) ==
    IF a[1] > 0 THEN <<a[2], a[1]>>
    ELSE IF a[1] < 0 THEN <<-a[2], -a[1]>>
    ELSE CHOOSE v \in {} : TRUE
RDiv(a, b) == RMul(a, RInv(b))

\* ------------------------------------------------------------------------
\* Arrays are functions on 0..n-1, as in the source
\* ------------------------------------------------------------------------
ZeroBased(s) == [k \in 0..(Len(s) - 1) |-> s[k + 1]]
Elems(v) == {v[k] : k \in DOMAIN v}

XS == 0..(N_POINTS_X - 1)
YS == 0..(N_POINTS_Y - 1)

\* a negative index counts from the end of the axis
WrapIndex(k, n) == IF k < 0 THEN n + k ELSE k

\* ------------------------------------------------------------------------
\* LBM parameters
\* ------------------------------------------------------------------------
N_DISCRETE_VELOCITIES == 9
QS == 0..(N_DISCRETE_VELOCITIES - 1)

LATTICE_VELOCITIES ==
    ZeroBased(<< ZeroBased(<<0, 1, 0, -1, 0, 1, -1, -1, 1>>),
                 ZeroBased(<<0, 0, 1, 0, -1, 1, 1, -1, -1>>) >>)
LATTICE_INDICES == [i \in 0..8 |-> i]

\* variant: the table pairs each diagonal with its mirror image, not its
\* opposite
OppositeMirrored == ZeroBased(<<0, 3, 4, 1, 2, 8, 7, 6, 5>>)
OPPOSITE_LATTICE_INDICES == ZeroBased(<<0, 3, 4, 1, 2, 7, 8, 5, 6>>)

\* variant: the last diagonal carries an axis weight
LatticeWeightsAxisForDiagonal ==
    ZeroBased(<< Rat(4, 9), Rat(1, 9), Rat(1, 9), Rat(1, 9), Rat(1, 9),
                 Rat(1, 36), Rat(1, 36), Rat(1, 36), Rat(1, 9) >>)
LATTICE_WEIGHTS ==
    ZeroBased(<< Rat(4, 9), Rat(1, 9), Rat(1, 9), Rat(1, 9), Rat(1, 9),
                 Rat(1, 36), Rat(1, 36), Rat(1, 36), Rat(1, 36) >>)
RIGHT_VELOCITIES == ZeroBased(<<1, 5, 8>>)
UP_VELOCITIES == ZeroBased(<<2, 5, 6>>)
LEFT_VELOCITIES == ZeroBased(<<3, 6, 7>>)
DOWN_VELOCITIES == ZeroBased(<<4, 7, 8>>)
PURE_VERTICAL_VELOCITIES == ZeroBased(<<0, 2, 4>>)
PURE_HORIZONTAL_VELOCITIES == ZeroBased(<<0, 1, 3>>)

\* ------------------------------------------------------------------------
\* Array primitives used by the update
\* ------------------------------------------------------------------------
\* sum of v[0..n-1], left to right
RECURSIVE SumFirst(_, _)
SumFirst(v, n) == IF n = 0 THEN Zero ELSE RAdd(SumFirst(v, n - 1), v[n - 1])

\* jnp.sum(v, axis=-1) on one innermost vector
SumLast(v) == SumFirst(v, Cardinality(DOMAIN v))

\* f[col, :, idx]: shape (len(idx), Ny)
Gather(f, col, idx) == [k \in DOMAIN idx |-> [y \in YS |-> f[col][y][idx[k]]]]

\* a.T of a (K, Ny) array: shape (Ny, K)
Transpose(a) == [y \in YS |-> [k \in DOMAIN a |-> a[k][y]]]

\* f.at[col, :, idx].set(src), src of shape (len(idx), Ny)
AtColSet(f, col, idx, src) ==
    [x \in XS |-> [y \in YS |-> [q \in QS |->
        IF x = col /\ q \in Elems(idx)
        THEN src[CHOOSE k \in DOMAIN idx : idx[k] = q][y]
        ELSE f[x][y][q]]]]

\* variant: the entries move towards the front instead of the back
Roll1Backward(v, shift, n) ==
    LET k == shift % n
    IN  [j \in 0..(n - 1) |-> v[(j + k) % n]]

\* jnp.roll on a vector of length n: the last (shift mod n) entries move to
\* the front
Roll1(v, shift, n) ==
    LET k == shift % n
    IN  [j \in 0..(n - 1) |-> IF j < k THEN v[n - k + j] ELSE v[j - k]]

\* jnp.roll(a, shift, axis) on an (Nx, Ny) array
roll(a, shift, axis) ==
    IF axis = 0
    THEN Roll1(a, shift, N_POINTS_X)
    ELSE [x \in XS |-> Roll1(a[x], shift, N_POINTS_Y)]

\* f[:, :, i]
Slice(f, i) == [x \in XS |-> [y \in YS |-> f[x][y][i]]]

\* f.at[:, :, i].set(a)
AtSliceSet(f, i, a) ==
    [x \in XS |-> [y \in YS |-> [q \in QS |->
        IF q = i THEN a[x][y] ELSE f[x][y][q]]]]

\* ------------------------------------------------------------------------
\* Macroscopic fields and equilibrium
\* ------------------------------------------------------------------------
get_density(f) == [x \in XS |-> [y \in YS |-> SumLast(f[x][y])]]

get_macroscopic_velocities(f, rho) ==
    [x \in XS |-> [y \in YS |-> [d \in 0..1 |->
        RDiv(SumLast([q \in QS |->
                 RMul(f[x][y][q], Int2Rat(LATTICE_VELOCITIES[d][q]))]),
             rho[x][y])]]]

\* variant: the coefficient of (c.u)^2 is 3/2 instead of 9/2
EquilibriumCellLowCoefficient(uc, rhoc) ==
    LET cu == [q \in QS |->
                 RAdd(RMul(Int2Rat(LATTICE_VELOCITIES[0][q]), uc[0]),
                      RMul(Int2Rat(LATTICE_VELOCITIES[1][q]), uc[1]))]
        u_sq == RAdd(RMul(uc[0], uc[0]), RMul(uc[1], uc[1]))
    IN  [q \in QS |->
            RMul(RMul(rhoc, LATTICE_WEIGHTS[q]),
                 RSub(RAdd(RAdd(One, RMul(Int2Rat(3), cu[q])),
                           RMul(Rat(3, 2), RMul(cu[q], cu[q]))),
                      RMul(Rat(3, 2), u_sq)))]

EquilibriumCell(uc, rhoc) ==
    LET cu == [q \in QS |->
                 RAdd(RMul(Int2Rat(LATTICE_VELOCITIES[0][q]), uc[0]),
                      RMul(Int2Rat(LATTICE_VELOCITIES[1][q]), uc[1]))]
        u_sq == RAdd(RMul(uc[0], uc[0]), RMul(uc[1], uc[1]))
    IN  [q \in QS |->
            RMul(RMul(rhoc, LATTICE_WEIGHTS[q]),
                 RSub(RAdd(RAdd(One, RMul(Int2Rat(3), cu[q])),
                           RMul(Rat(9, 2), RMul(cu[q], cu[q]))),
                      RMul(Rat(3, 2), u_sq)))]

get_equilibrium_discrete_velocities(u, rho) ==
    [x \in XS |-> [y \in YS |-> EquilibriumCell(u[x][y], rho[x][y])]]

\* ------------------------------------------------------------------------
\* Setup in main
\* ------------------------------------------------------------------------
\* sqrt((X - cx)^2 + (Y - cy)^2) < radius, radius a non-negative integer
ObstacleMask(cx, cy, radius) ==
    [x \in XS |-> [y \in YS |->
        (x - cx) * (x - cx) + (y - cy) * (y - cy) < radius * radius]]

\* zeros((Nx, Ny, 2)) with component 0 set to the inflow velocity
VelocityProfile(ux) == [x \in XS |-> [y \in YS |-> ZeroBased(<<ux, Zero>>)]]

Ones == [x \in XS |-> [y \in YS |-> One]]

\* ------------------------------------------------------------------------
\* Stages of update
\* ------------------------------------------------------------------------
\* variant: the rightward components of column Nx-2 are copied instead of
\* the leftward ones
OutflowPatchFromRight(f) ==
    AtColSet(f, WrapIndex(-1, N_POINTS_X), LEFT_VELOCITIES,
             Gather(f, WrapIndex(-2, N_POINTS_X), RIGHT_VELOCITIES))

\* line 64
OutflowPatch(f) ==
    AtColSet(f, WrapIndex(-1, N_POINTS_X), LEFT_VELOCITIES,
             Gather(f, WrapIndex(-2, N_POINTS_X), LEFT_VELOCITIES))

\* variant: the profile is imposed on every row of column 0
InflowVelocityAllRows(u0, vp) ==
    [x \in XS |-> [y \in YS |-> IF x = 0 THEN vp[0][y] ELSE u0[x][y]]]

\* line 68: u.at[0, 1:-1, :].set(velocity_profile[0, 1:-1, :])
InflowVelocity(u0, vp) ==
    [x \in XS |-> [y \in YS |->
        IF x = 0 /\ y \in 1..(N_POINTS_Y - 2) THEN vp[0][y] ELSE u0[x][y]]]

\* variant: the leftward sum is not doubled
InflowDensitySingle(rho0, f, uu) ==
    LET vert == Transpose(Gather(f, 0, PURE_VERTICAL_VELOCITIES))
        left == Transpose(Gather(f, 0, LEFT_VELOCITIES))
    IN  [x \in XS |-> [y \in YS |->
            IF x = 0
            THEN RDiv(RAdd(SumLast(vert[y]), SumLast(left[y])),
                      RSub(One, uu[0][y][0]))
            ELSE rho0[x][y]]]

\* lines 69-72: rho.at[0, :].set(...)
InflowDensity(rho0, f, uu) ==
    LET vert == Transpose(Gather(f, 0, PURE_VERTICAL_VELOCITIES))
        left == Transpose(Gather(f, 0, LEFT_VELOCITIES))
    IN  [x \in XS |-> [y \in YS |->
            IF x = 0
            THEN RDiv(RAdd(SumLast(vert[y]),
                           RMul(Int2Rat(2), SumLast(left[y]))),
                      RSub(One, uu[0][y][0]))
            ELSE rho0[x][y]]]

\* variant: the upward components are overwritten instead of the rightward
InflowOverwriteUp(f, eq) ==
    AtColSet(f, 0, UP_VELOCITIES, Gather(eq, 0, UP_VELOCITIES))

\* variant: the result of .at[].set() is dropped
InflowOverwriteDropped(f, eq) == f

\* line 75
InflowOverwrite(f, eq) ==
    AtColSet(f, 0, RIGHT_VELOCITIES, Gather(eq, 0, RIGHT_VELOCITIES))

\* line 77
Collide(f, eq, om) ==
    [x \in XS |-> [y \in YS |-> [q \in QS |->
        RSub(f[x][y][q], RMul(om, RSub(f[x][y][q], eq[x][y][q])))]]]

\* variant: the reflection reads the field it is writing
RECURSIVE BounceBackInPlace(_, _, _, _)
BounceBackInPlace(fpost, f, mask, i) ==
    IF i = N_DISCRETE_VELOCITIES THEN fpost
    ELSE BounceBackInPlace(
            [x \in XS |-> [y \in YS |-> [q \in QS |->
                IF mask[x][y] /\ q = LATTICE_INDICES[i]
                THEN fpost[x][y][OPPOSITE_LATTICE_INDICES[i]]
                ELSE fpost[x][y][q]]]],
            f, mask, i + 1)

\* lines 79-82, iterations i .. 8 of the loop
RECURSIVE BounceBack(_, _, _, _)
BounceBack(fpost, f, mask, i) ==
    IF i = N_DISCRETE_VELOCITIES THEN fpost
    ELSE BounceBack(
            [x \in XS |-> [y \in YS |-> [q \in QS |->
                IF mask[x][y] /\ q = LATTICE_INDICES[i]
                THEN f[x][y][OPPOSITE_LATTICE_INDICES[i]]
                ELSE fpost[x][y][q]]]],
            f, mask, i + 1)

\* lines 84-91, iterations i .. 8 of the loop
RECURSIVE Stream(_, _, _)
Stream(fstreamed, fpost, i) ==
    IF i = N_DISCRETE_VELOCITIES THEN fstreamed
    ELSE Stream(
            AtSliceSet(fstreamed, i,
                roll(roll(Slice(fpost, i), LATTICE_VELOCITIES[0][i], 0),
                     LATTICE_VELOCITIES[1][i], 1)),
            fpost, i + 1)

\* ------------------------------------------------------------------------
\* State
\* ------------------------------------------------------------------------
VARIABLES
    tables,           \* the module-level lattice tables (lines 22-32),
                      \* which update reads and never assigns
    omega,            \* relaxation frequency (main, line 50)
    obstacle_mask,    \* main, lines 56-57
    velocity_profile, \* main, lines 59-60
    f_prev,           \* the distribution field threaded through the loop
    iteration_index,  \* number of completed iterations of the loop
    f_entry,          \* argument of the last call of update
    f_outflow,        \* f_prev after line 64
    rho_extracted,    \* rho after line 65
    u_extracted,      \* u after line 66
    u,                \* u after line 68
    rho,              \* rho after lines 69-72
    feq,              \* line 74
    f_inflow,         \* f_prev after line 75
    f_post,           \* f_post after the loop of lines 79-82
    f_streamed,       \* value returned by the last call of update
    f_before,         \* f_prev before the last iteration
    f_twin,           \* the field of a second run of the same loop
    f_twin_before,    \* f_twin before the last iteration of the second run
    twin_index        \* number of completed iterations of the second run

params == <<tables, omega, obstacle_mask, velocity_profile>>
locals == <<f_entry, f_outflow, rho_extracted, u_extracted, u, rho, feq,
            f_inflow, f_post, f_streamed>>
first == <<f_prev, f_before, iteration_index>>
twin == <<f_twin, f_twin_before, twin_index>>
vars == <<params, locals, first, twin>>

\* the lattice tables as the module defines them
LatticeTables ==
    [ LATTICE_VELOCITIES |-> LATTICE_VELOCITIES,
      OPPOSITE_LATTICE_INDICES |-> OPPOSITE_LATTICE_INDICES,
      LATTICE_WEIGHTS |-> LATTICE_WEIGHTS,
      RIGHT_VELOCITIES |-> RIGHT_VELOCITIES,
      UP_VELOCITIES |-> UP_VELOCITIES,
      LEFT_VELOCITIES |-> LEFT_VELOCITIES,
      DOWN_VELOCITIES |-> DOWN_VELOCITIES,
      PURE_VERTICAL_VELOCITIES |-> PURE_VERTICAL_VELOCITIES,
      PURE_HORIZONTAL_VELOCITIES |-> PURE_HORIZONTAL_VELOCITIES ]

\* value of a local of update before the first call
None == <<>>

\* ------------------------------------------------------------------------
\* Inputs
\* ------------------------------------------------------------------------
InflowVelocities == {Zero, Rat(1, 25)}
Omegas == {Rat(1, 2), One, Rat(3, 2)}
CylinderCenters == {<<1, 1>>, <<0, 1>>}
CylinderRadii == {0, 1}
FieldPatterns == {<<1, 2, 1>>, <<0, 1, 2>>}
RestDensities == {Int2Rat(2), Rat(1, 2)}
PeriodicPatterns == (0..2) \X (0..2) \X (1..2)
RestPatterns == (0..1) \X {<<0, 1>>, <<1, 0>>, <<1, 1>>}

\* a field of small positive integers
IntField(p) ==
    [x \in XS |-> [y \in YS |-> [q \in QS |->
        Int2Rat(1 + ((p[1] * x + p[2] * y + p[3] * q) % 3))]]]

\* the field main starts from (lines 94-95), for a uniform density r
InitialField(vp, r) ==
    get_equilibrium_discrete_velocities(vp, [x \in XS |-> [y \in YS |-> r]])

\* a field at rest (u = 0) whose density varies over the grid
RestField(p) ==
    get_equilibrium_discrete_velocities(
        VelocityProfile(Zero),
        [x \in XS |-> [y \in YS |->
            Int2Rat(36 * (1 + p[1] + ((p[2][1] * x + p[2][2] * y) % 2)))]])

PeriodicFields ==
    {IntField(p) : p \in PeriodicPatterns}
    \cup {RestField(p) : p \in RestPatterns}

InitialFields(vp) ==
    {InitialField(vp, One)}
    \cup {InitialField(VelocityProfile(Zero), r) : r \in RestDensities}
    \cup {IntField(p) : p \in FieldPatterns}

\* components that streaming delivers by horizontal wraparound: rightward
\* directions at column 0 (rows in ys) and leftward directions at the last
\* column
WrapDelivered(x, y, q, ys) ==
    \/ x = 0 /\ y \in ys /\ q \in Elems(RIGHT_VELOCITIES)
    \/ x = N_POINTS_X - 1 /\ q \in Elems(LEFT_VELOCITIES)

Perturb(f, ys) ==
    [x \in XS |-> [y \in YS |-> [q \in QS |->
        IF WrapDelivered(x, y, q, ys) THEN Int2Rat(5) ELSE f[x][y][q]]]]

Representable(f) ==
    \A x \in XS, y \in YS, q \in QS : f[x][y][q][2] <= MaxDen

\* rows of column 0 at which the twin of f may differ from f
InteriorRows == 1..(N_POINTS_Y - 2)
TwinRows(f) == {{}, InteriorRows} \cup (IF Representable(f) THEN {YS} ELSE {})

\* ------------------------------------------------------------------------
\* Specification of the program
\* ------------------------------------------------------------------------
Init ==
    /\ tables = LatticeTables
    /\ omega \in Omegas
    /\ \E c \in CylinderCenters, r \in CylinderRadii :
           obstacle_mask = ObstacleMask(c[1], c[2], r)
    /\ \E ux \in InflowVelocities : velocity_profile = VelocityProfile(ux)
    /\ f_prev \in InitialFields(velocity_profile)
    /\ \E ys \in TwinRows(f_prev) : f_twin = Perturb(f_prev, ys)
    /\ iteration_index = 0 /\ twin_index = 0
    /\ f_entry = None /\ f_outflow = None /\ rho_extracted = None
    /\ u_extracted = None /\ u = None /\ rho = None /\ feq = None
    /\ f_inflow = None /\ f_post = None /\ f_streamed = None
    /\ f_before = None /\ f_twin_before = None

\* one call update(arg), lines 63-92
UpdateCall(arg) ==
    /\ f_entry' = arg
    /\ f_outflow' = OutflowPatch(arg)
    /\ rho_extracted' = get_density(f_outflow')
    /\ u_extracted' = get_macroscopic_velocities(f_outflow', rho_extracted')
    /\ u' = InflowVelocity(u_extracted', velocity_profile)
    /\ rho' = InflowDensity(rho_extracted', f_outflow', u')
    /\ feq' = get_equilibrium_discrete_velocities(u', rho')
    /\ f_inflow' = InflowOverwrite(f_outflow', feq')
    /\ f_post' = BounceBack(Collide(f_inflow', feq', omega), f_inflow',
                            obstacle_mask, 0)
    /\ f_streamed' = Stream(f_post', f_post', 0)

\* one iteration of the loop of main (line 101): f_prev = update(f_prev)
Update ==
    /\ iteration_index < MaxSteps
    /\ twin_index = iteration_index
    /\ iteration_index = 0 \/ Representable(f_prev)
    /\ UpdateCall(f_prev)
    /\ f_before' = f_prev
    /\ f_prev' = f_streamed'
    /\ iteration_index' = iteration_index + 1
    /\ UNCHANGED <<params, twin>>

\* the same iteration in the second run, which follows the first
UpdateTwin ==
    /\ twin_index < iteration_index
    /\ twin_index = 0 \/ Representable(f_twin)
    /\ UpdateCall(f_twin)
    /\ f_twin_before' = f_twin
    /\ f_twin' = f_streamed'
    /\ twin_index' = twin_index + 1
    /\ UNCHANGED <<params, first>>

Next == Update \/ UpdateTwin

Spec == Init /\ [][Next]_vars

\* ------------------------------------------------------------------------
\* The periodic-only variant: no obstacle, no inflow/outflow patching
\* ------------------------------------------------------------------------
InitPeriodic ==
    /\ tables = LatticeTables
    /\ omega \in Omegas
    /\ obstacle_mask = ObstacleMask(0, 0, 0)
    /\ velocity_profile = VelocityProfile(Zero)
    /\ f_prev \in PeriodicFields
    /\ f_twin = f_prev
    /\ iteration_index = 0 /\ twin_index = 0
    /\ f_entry = None /\ f_outflow = None /\ rho_extracted = None
    /\ u_extracted = None /\ u = None /\ rho = None /\ feq = None
    /\ f_inflow = None /\ f_post = None /\ f_streamed = None
    /\ f_before = None /\ f_twin_before = None

\* update without lines 64, 68-72 and 75
PeriodicStep ==
    /\ iteration_index < MaxSteps
    /\ iteration_index = 0 \/ Representable(f_prev)
    /\ f_entry' = f_prev
    /\ f_outflow' = f_prev
    /\ rho_extracted' = get_density(f_outflow')
    /\ u_extracted' = get_macroscopic_velocities(f_outflow', rho_extracted')
    /\ u' = u_extracted'
    /\ rho' = rho_extracted'
    /\ feq' = get_equilibrium_discrete_velocities(u', rho')
    /\ f_inflow' = f_outflow'
    /\ f_post' = BounceBack(Collide(f_inflow', feq', omega), f_inflow',
                            obstacle_mask, 0)
    /\ f_streamed' = Stream(f_post', f_post', 0)
    /\ f_before' = f_prev
    /\ f_prev' = f_streamed'
    /\ iteration_index' = iteration_index + 1
    /\ UNCHANGED <<params, twin>>

NextPeriodic == PeriodicStep

SpecPeriodic == InitPeriodic /\ [][NextPeriodic]_vars

\* ------------------------------------------------------------------------
\* Properties
\* ------------------------------------------------------------------------
\* the locals hold the values of a completed call of update
Called == iteration_index > 0

LeftSet == {3, 6, 7}
RightSet == {1, 5, 8}

\* C1: after the obstacle stage, at every cell of the obstacle mask and for
\* every direction i, f_post in direction i is the pre-collision field
\* (f_prev after the inflow/outflow patches) in the opposite direction.
C1_BounceBack ==
    Called =>
        \A x \in XS, y \in YS :
            obstacle_mask[x][y] =>
                \A i \in QS :
                    f_post[x][y][i] =
                        f_inflow[x][y][OPPOSITE_LATTICE_INDICES[i]]

\* an obstacle cell whose pre-collision distribution is not symmetric has
\* been reflected
C1_Witness ==
    /\ Called
    /\ omega # One
    /\ \E x \in XS, y \in YS :
          /\ obstacle_mask[x][y]
          /\ \E i \in QS :
                f_inflow[x][y][i] # f_inflow[x][y][OPPOSITE_LATTICE_INDICES[i]]
          /\ f_post[x][y] # f_inflow[x][y]

\* C2: streaming is periodic index remapping of the field after collision
\* and bounce-back: f_streamed[x, y, i] = f_post[(x - dx_i) mod Nx,
\* (y - dy_i) mod Ny, i], each direction on its own.
C2_Streaming ==
    Called =>
        \A x \in XS, y \in YS, i \in QS :
            f_streamed[x][y][i] =
                f_post[(x - LATTICE_VELOCITIES[0][i]) % N_POINTS_X]
                      [(y - LATTICE_VELOCITIES[1][i]) % N_POINTS_Y][i]

\* a field that streaming changes, with a value delivered by wraparound on
\* each axis that differs from the value it replaces
C2_Witness ==
    /\ Called
    /\ f_streamed # f_post
    /\ \E y \in YS : f_streamed[0][y][1] # f_post[0][y][1]
    /\ \E x \in XS : f_streamed[x][0][2] # f_post[x][0][2]

\* C7: Zou/He inflow at the column-0 cells where the inflow policy applies
\* (rows 1 .. Ny-2): the velocity is the prescribed (u_x, 0), the density
\* is (f0 + f2 + f4 + 2 (f3 + f6 + f7)) / (1 - u_x) of the field after the
\* outflow patch, directions 1, 5, 8 are replaced by the equilibrium at
\* that velocity and density, and the other six directions are unchanged.
C7_ZouHe ==
    Called =>
        \A y \in InteriorRows :
            LET g == f_outflow[0][y]
                ux == velocity_profile[0][y][0]
                r == RDiv(RAdd(RAdd(RAdd(g[0], g[2]), g[4]),
                               RMul(Int2Rat(2),
                                    RAdd(RAdd(g[3], g[6]), g[7]))),
                          RSub(One, ux))
            IN  /\ u[0][y][0] = ux
                /\ u[0][y][1] = Zero
                /\ rho[0][y] = r
                /\ \A q \in QS :
                      f_inflow[0][y][q] =
                          IF q \in RightSet
                          THEN EquilibriumCell(ZeroBased(<<ux, Zero>>), r)[q]
                          ELSE g[q]

\* an inflow cell with a non-zero prescribed velocity whose rightward
\* components and density have been replaced by different values
C7_Witness ==
    /\ Called
    /\ \E y \in InteriorRows :
          /\ velocity_profile[0][y][0] # Zero
          /\ u[0][y] # u_extracted[0][y]
          /\ rho[0][y] # rho_extracted[0][y]
          /\ f_inflow[0][y] # f_outflow[0][y]

\* C8: the outflow patch sets directions 3, 6, 7 of the last column to
\* their values at column Nx-2 of the incoming field and changes nothing
\* else; density and velocity are extracted from the patched field.
C8_Outflow ==
    Called =>
        /\ \A x \in XS, y \in YS, q \in QS :
              f_outflow[x][y][q] =
                  IF x = N_POINTS_X - 1 /\ q \in LeftSet
                  THEN f_entry[N_POINTS_X - 2][y][q]
                  ELSE f_entry[x][y][q]
        /\ \A x \in XS, y \in YS :
              /\ rho_extracted[x][y] = SumLast(f_outflow[x][y])
              /\ \A d \in 0..1 :
                    RMul(u_extracted[x][y][d], rho_extracted[x][y]) =
                        SumLast([q \in QS |->
                            RMul(f_outflow[x][y][q],
                                 Int2Rat(LATTICE_VELOCITIES[d][q]))])

\* an incoming field whose last column the patch has changed
C8_Witness ==
    /\ Called
    /\ f_outflow # f_entry
    /\ \E y \in YS :
          rho_extracted[N_POINTS_X - 1][y] # SumLast(f_entry[N_POINTS_X - 1][y])

\* C3: in the periodic-only variant the total density over the grid is
\* the same after every timestep as before it, hence equal to its initial
\* value after any number of timesteps.
TotalDensity(f) ==
    SumLast([x \in XS |-> SumLast([y \in YS |-> SumLast(f[x][y])])])

C3_MassConserved ==
    Called => TotalDensity(f_prev) = TotalDensity(f_before)

\* a second timestep, with a collision that changed the field and a cell
\* whose density moved
C3_Witness ==
    /\ iteration_index > 1
    /\ omega # One
    /\ \E x \in XS, y \in YS, q \in QS : f_post[x][y][q] # f_entry[x][y][q]
    /\ \E x \in XS, y \in YS :
          SumLast(f_prev[x][y]) # SumLast(f_before[x][y])

\* C4: a rest equilibrium (u = 0, uniform density r > 0) is a fixed point
\* of one update run with an empty obstacle mask and a zero prescribed
\* inflow velocity.
NoObstacle == \A x \in XS, y \in YS : ~obstacle_mask[x][y]

RestEquilibrium(f) ==
    LET r == SumLast(f[0][0])
    IN  /\ r[1] > 0
        /\ \A x \in XS, y \in YS, q \in QS :
              f[x][y][q] = RMul(r, LATTICE_WEIGHTS[q])

C4_FixedPoint ==
    (/\ Called
     /\ NoObstacle
     /\ velocity_profile = VelocityProfile(Zero)
     /\ RestEquilibrium(f_entry))
        => f_streamed = f_entry

\* update has run on a rest equilibrium of density other than 1, with a
\* relaxation frequency other than 1, and no obstacle or inflow velocity
C4_Witness ==
    /\ Called
    /\ NoObstacle
    /\ velocity_profile = VelocityProfile(Zero)
    /\ RestEquilibrium(f_entry)
    /\ SumLast(f_entry[0][0]) # One
    /\ omega # One
    /\ f_streamed = f_entry

\* C5, as claimed: the inflow stage (velocity, density, directions 1, 5, 8)
\* acts only at column-0 cells with 1 <= y <= Ny-2; everywhere else, the
\* two corner cells of column 0 included, velocity, density and all nine
\* components are as they were after the outflow patch.
C5_InflowExcludesCorners ==
    Called =>
        \A x \in XS, y \in YS :
            ~(x = 0 /\ y \in InteriorRows) =>
                /\ u[x][y] = u_extracted[x][y]
                /\ rho[x][y] = rho_extracted[x][y]
                /\ f_inflow[x][y] = f_outflow[x][y]

\* C5, amended: the prescribed velocity is imposed only at column-0 cells
\* with 1 <= y <= Ny-2, but the density formula and the overwrite of
\* directions 1, 5, 8 act on every cell of column 0. At the two corner
\* cells the extracted velocity is kept, the density formula returns the
\* extracted density, the six other components are kept, and directions
\* 1, 5, 8 are replaced by the equilibrium at the extracted velocity and
\* density. Cells outside column 0 are untouched.
CornerRows == {0, N_POINTS_Y - 1}

C5_InflowAtCorners ==
    Called =>
        /\ \A y \in InteriorRows : u[0][y] = velocity_profile[0][y]
        /\ \A y \in CornerRows :
              /\ u[0][y] = u_extracted[0][y]
              /\ rho[0][y] = rho_extracted[0][y]
              /\ \A q \in QS :
                    f_inflow[0][y][q] =
                        IF q \in RightSet
                        THEN EquilibriumCell(u_extracted[0][y],
                                             rho_extracted[0][y])[q]
                        ELSE f_outflow[0][y][q]
        /\ \A x \in XS \ {0}, y \in YS :
              /\ u[x][y] = u_extracted[x][y]
              /\ rho[x][y] = rho_extracted[x][y]
              /\ f_inflow[x][y] = f_outflow[x][y]

\* a corner cell of column 0 whose directions 1, 5, 8 the inflow stage has
\* changed, next to an inflow row whose velocity it has changed
C5_Witness ==
    /\ Called
    /\ \E y \in CornerRows, q \in RightSet :
          f_inflow[0][y][q] # f_outflow[0][y][q]
    /\ \E y \in InteriorRows : u[0][y] # u_extracted[0][y]

\* C6: the two runs are compared after the same number of iterations
SameProgress == iteration_index > 0 /\ twin_index = iteration_index

MaskOffEdges ==
    \A y \in YS : ~obstacle_mask[0][y] /\ ~obstacle_mask[N_POINTS_X - 1][y]

\* the fields f and g agree except in wraparound-delivered components, the
\* rightward ones taken at the rows ys of column 0
AgreeOffWrap(f, g, ys) ==
    \A x \in XS, y \in YS, q \in QS :
        ~WrapDelivered(x, y, q, ys) => f[x][y][q] = g[x][y][q]

\* C6, as claimed: with no obstacle cell in column 0 or Nx-1, two fields
\* that agree except in directions 1, 5, 8 at column 0 and directions
\* 3, 6, 7 at column Nx-1 are mapped by update to the same field.
C6_WrapImmaterial ==
    (/\ SameProgress
     /\ MaskOffEdges
     /\ AgreeOffWrap(f_before, f_twin_before, YS))
        => f_twin = f_prev

\* C6, amended: the same, for two fields that agree except in directions
\* 1, 5, 8 at the column-0 cells with 1 <= y <= Ny-2 and directions
\* 3, 6, 7 at column Nx-1 (the two corner cells of column 0 agree).
C6_WrapImmaterialOffCorners ==
    (/\ SameProgress
     /\ MaskOffEdges
     /\ AgreeOffWrap(f_before, f_twin_before, InteriorRows))
        => f_twin = f_prev

\* two runs from fields that differ at an inflow row of column 0 and in
\* the last column, which update has mapped to the same field
C6_Witness ==
    /\ SameProgress
    /\ MaskOffEdges
    /\ AgreeOffWrap(f_before, f_twin_before, InteriorRows)
    /\ \E y \in InteriorRows, q \in RightSet :
          f_before[0][y][q] # f_twin_before[0][y][q]
    /\ \E y \in YS, q \in LeftSet :
          f_before[N_POINTS_X - 1][y][q] # f_twin_before[N_POINTS_X - 1][y][q]
    /\ f_twin = f_prev

\* C9: in every state the tables are such that direction 0 is the rest
\* vector, the opposite of the opposite of a direction is the direction,
\* the nine weights sum to 1, and the weighted sum of the direction vectors
\* is (0, 0); update does not change the tables.
C9_LatticeInvariant ==
    LET c == tables.LATTICE_VELOCITIES
        opp == tables.OPPOSITE_LATTICE_INDICES
        w == tables.LATTICE_WEIGHTS
    IN  /\ c[0][0] = 0 /\ c[1][0] = 0
        /\ DOMAIN opp = QS
        /\ \A i \in QS : opp[i] \in QS /\ opp[opp[i]] = i
        /\ SumLast(w) = One
        /\ \A d \in 0..1 :
              SumLast([q \in QS |-> RMul(w[q], Int2Rat(c[d][q]))]) = Zero

\* update has extracted the density r and the velocity (0, 0) from a rest
\* equilibrium of density r
C9_Witness ==
    /\ Called
    /\ tables = LatticeTables
    /\ RestEquilibrium(f_outflow)
    /\ \A x \in XS, y \in YS :
          /\ rho_extracted[x][y] = SumLast(f_outflow[0][0])
          /\ u_extracted[x][y] = ZeroBased(<<Zero, Zero>>)

\* C10: in every state the velocity of the opposite of a direction is the
\* negated velocity of the direction, and each directional subset holds
\* exactly the directions with the matching velocity component.
WithComponent(d, v) == {i \in QS : tables.LATTICE_VELOCITIES[d][i] = v}

C10_TablesConsistent ==
    /\ \A i \in QS, d \in 0..1 :
          tables.LATTICE_VELOCITIES[d][tables.OPPOSITE_LATTICE_INDICES[i]] =
              -tables.LATTICE_VELOCITIES[d][i]
    /\ Elems(tables.RIGHT_VELOCITIES) = WithComponent(0, 1)
    /\ Elems(tables.LEFT_VELOCITIES) = WithComponent(0, -1)
    /\ Elems(tables.UP_VELOCITIES) = WithComponent(1, 1)
    /\ Elems(tables.DOWN_VELOCITIES) = WithComponent(1, -1)
    /\ Elems(tables.PURE_VERTICAL_VELOCITIES) = WithComponent(0, 0)
    /\ Elems(tables.PURE_HORIZONTAL_VELOCITIES) = WithComponent(1, 0)

\* bounce-back has reversed the non-zero momentum of an obstacle cell
Momentum(c, d) ==
    SumLast([q \in QS |-> RMul(c[q], Int2Rat(LATTICE_VELOCITIES[d][q]))])

C10_Witness ==
    /\ Called
    /\ tables = LatticeTables
    /\ \E x \in XS, y \in YS :
          /\ obstacle_mask[x][y]
          /\ \E d \in 0..1 : Momentum(f_inflow[x][y], d) # Zero
          /\ \A d \in 0..1 :
                Momentum(f_post[x][y], d) = RNeg(Momentum(f_inflow[x][y], d))

====
